---- MODULE Spec2Model ----
(***************************************************************************)
(* AI Writing Helper (Obsidian plugin): the task runner, the completion    *)
(* client and the floating overlay, modelled from src/main.ts.             *)
(*                                                                         *)
(* src/main.ts holds two variants of the plugin: the TypeScript source     *)
(* (lines 1-419; src/main.js is its build) and a later build (lines        *)
(* 452-774) that adds the outside-click listener, drops the Explanation    *)
(* task and uses a smaller context radius.  The variable `variant` says    *)
(* which one runs; it never changes.                                       *)
(*                                                                         *)
(* Strings are sequences of one-character strings; template text is one    *)
(* token per literal piece.  DOM elements are identified by the number of  *)
(* the runTask call that created them; 0 is null.                          *)
(***************************************************************************)
EXTENDS Integers, Sequences, FiniteSets, TLC

VARIABLES
  variant,          \* "ts" | "built"
  apiKey,           \* settings.openrouterApiKey
  settings,         \* the rest of this.settings: the model fields, and what else was loaded
  ncalls,           \* runTask invocations so far (names the next panel)
  popoverEl,        \* this.popoverEl: panel id, 0 = null
  contentEl,        \* this.contentEl: panel id, 0 = null
  attached,         \* panels that are children of document.body
  raw,              \* per panel: the data-raw-markdown attribute of its content div
  children,         \* per panel: the rendered nodes in its content div, in order
  renders,          \* renderMarkdown calls started and not yet completed
  layout,           \* per panel: style.top / style.left and the geometry it was given
  placedFor,        \* history: per panel, the stored markdown its position was computed for
  escListeners,     \* keydown listeners on window, by the panel whose open added them
  outsideListeners, \* mousedown listeners on document, by panel (built variant)
  timers,           \* pending setTimeout(..., 0) callbacks, by panel (built variant)
  requests,         \* per call: the completion request and its state
  notice,           \* the last Notice shown
  clipboard,        \* the text last written to the system clipboard
  unhandled,        \* calls whose runTask promise rejected
  writer,           \* history: per panel, the call whose update last wrote it
  superseded,       \* history: panels destroyed by a later open while their request was pending
  ticked,           \* history: panels whose deferred registration tick has run
  ev                \* history: the last handler that ran, with what it was given

vars == <<variant, apiKey, settings, ncalls, popoverEl, contentEl, attached, raw, children,
          renders, layout, placedFor, escListeners, outsideListeners, timers, requests,
          notice, clipboard, unhandled, writer, superseded, ticked, ev>>

----------------------------------------------------------------------------
(* Bounds *)

MaxCalls == 2

\* length of the long document the functions are applied to
LongLen == 6100

PanelIds == 1..MaxCalls

----------------------------------------------------------------------------
(* Strings *)

Min(S) == CHOOSE x \in S : \A y \in S : x <= y
Max(S) == CHOOSE x \in S : \A y \in S : x >= y

\* String.prototype.trim
Trim(s) ==
  LET keep == {i \in 1..Len(s) : s[i] # " "}
  IN  IF keep = {} THEN <<>> ELSE SubSeq(s, Min(keep), Max(keep))

\* String.prototype.slice(a, b) for a, b >= 0
Slice(s, a, b) ==
  LET lo == IF a < Len(s) THEN a ELSE Len(s)
      hi == IF b < Len(s) THEN b ELSE Len(s)
  IN  IF lo >= hi THEN <<>> ELSE SubSeq(s, lo + 1, hi)

\* t occurs in s as a contiguous run
IsSubstring(t, s) ==
  \E i \in 0..(Len(s) - Len(t)) : SubSeq(s, i + 1, i + Len(t)) = t

----------------------------------------------------------------------------
(* Program constants *)

RadiusTs == 1200
RadiusBuilt == 40
CtxBudgetTs == 2000
DocBudgetTs == 6000
CtxBudgetBuilt == 50
Margin == 6
BottomGap == 20
PanelReserve == 560
MinLeft == 8
DefaultAnchor == 80

\* enum TaskKind, and the kinds the commands and menu items pass to runTask
Kinds ==
  IF variant = "ts" THEN {"Dictionary", "Correction", "Explanation"}
  ELSE {"Dictionary", "Correction"}

Radius == IF variant = "ts" THEN RadiusTs ELSE RadiusBuilt

Working == IF variant = "ts" THEN <<"Working", "...1">> ELSE <<"Working", "...3">>

NoSelectionNotice == "Select some text first."
NoKeyNotice == "Set your OpenRouter API key in settings."

----------------------------------------------------------------------------
(* Settings *)

\* a property that is not there
Undefined == <<"<undefined>">>

\* without the API key, which the variable apiKey holds
DEFAULT_SETTINGS ==
  IF variant = "ts"
    THEN [modelDictionary  |-> <<"google/gemini-2.5-flash-lite-002">>,
          modelCorrection  |-> <<"google/gemini-2.5-flash-lite-002">>,
          modelExplanation |-> <<"google/gemini-2.5-flash-lite-002">>]
    ELSE [modelDictionary  |-> <<"google/gemini-2.5-flash-lite">>,
          modelCorrection  |-> <<"google/gemini-2.5-flash-lite">>,
          modelExplanation |-> Undefined]

\* Object.assign({}, DEFAULT_SETTINGS, data): the keys the stored data has replace
\* the defaults, and keys the defaults do not have (endpoint) are kept as stored
loadSettings(data) ==
  [modelDictionary  |-> IF data.modelDictionary = Undefined
                          THEN DEFAULT_SETTINGS.modelDictionary ELSE data.modelDictionary,
   modelCorrection  |-> IF data.modelCorrection = Undefined
                          THEN DEFAULT_SETTINGS.modelCorrection ELSE data.modelCorrection,
   modelExplanation |-> IF data.modelExplanation = Undefined
                          THEN DEFAULT_SETTINGS.modelExplanation ELSE data.modelExplanation,
   endpoint         |-> data.endpoint]

\* nothing stored yet
NoData ==
  [modelDictionary |-> Undefined, modelCorrection |-> Undefined,
   modelExplanation |-> Undefined, endpoint |-> Undefined]

\* a model setting without its default
getModelFor_NoFallback(s, kind) ==
  IF kind = "Dictionary" THEN s.modelDictionary
  ELSE IF kind = "Correction" THEN s.modelCorrection
  ELSE s.modelExplanation

\* `x || d` on a string setting: the empty string and undefined are falsy
getModelFor(s, kind) ==
  LET or(x, d) == IF x = <<>> \/ x = Undefined THEN d ELSE x
  IN  IF kind = "Dictionary" THEN or(s.modelDictionary, DEFAULT_SETTINGS.modelDictionary)
      ELSE IF kind = "Correction" THEN or(s.modelCorrection, DEFAULT_SETTINGS.modelCorrection)
      ELSE IF variant = "ts" THEN
        IF kind = "Explanation"
          THEN or(s.modelExplanation, DEFAULT_SETTINGS.modelExplanation)
          ELSE Undefined
      ELSE DEFAULT_SETTINGS.modelDictionary

----------------------------------------------------------------------------
(* Prompt synthesis *)

\* the elision marker: newline, ellipsis, newline
Elision ==
  IF variant = "ts" THEN <<"<nl>", "<ellipsis>", "<nl>">>
  ELSE <<"<nl>", ".", ".", ".", "<nl>">>

\* a truncation that keeps maxChars characters at each end
trimForTokens_FullHalves(s, maxChars) ==
  IF Len(s) <= maxChars THEN s
  ELSE Slice(s, 0, maxChars) \o Elision \o Slice(s, Len(s) - maxChars, Len(s))

trimForTokens(s, maxChars) ==
  IF Len(s) <= maxChars THEN s
  ELSE LET half == maxChars \div 2
       IN  Slice(s, 0, half) \o Elision \o Slice(s, Len(s) - half, Len(s))

\* a delimited block of a template: label, opening quotes, the text, closing quotes
Block(label, body) == <<label, "<quotes>">> \o body \o <<"<quotes>">>

\* templates whose right-context block interpolates L
buildPrompt_LeftTwice(kind, selection, leftCtx, rightCtx, fullDoc) ==
  LET L == trimForTokens(leftCtx, IF variant = "ts" THEN CtxBudgetTs ELSE CtxBudgetBuilt)
  IN  [ok |-> TRUE,
       val |-> <<"Task: Define">> \o Block("Selection:", selection)
                 \o Block("Left context:", L) \o Block("Right context:", L)
                 \o <<"Format: Dictionary">>]

\* [ok |-> TRUE, val |-> prompt] or [ok |-> FALSE, val |-> the message thrown]
buildPrompt(kind, selection, leftCtx, rightCtx, fullDoc) ==
  IF variant = "ts" THEN
    LET L   == trimForTokens(leftCtx, CtxBudgetTs)
        R   == trimForTokens(rightCtx, CtxBudgetTs)
        DOC == trimForTokens(fullDoc, DocBudgetTs)
        body == Block("Selection:", selection) \o Block("Left context:", L)
                  \o Block("Right context:", R)
                  \o Block("Document context (truncated):", DOC)
    IN  IF kind = "Dictionary"
          THEN [ok |-> TRUE, val |-> <<"Task: Define">> \o body \o <<"Format: Dictionary">>]
        ELSE IF kind = "Correction"
          THEN [ok |-> TRUE, val |-> <<"Task: Check">> \o body \o <<"Format: Correction">>]
        ELSE [ok |-> TRUE, val |-> <<"Task: Explain">> \o body \o <<"Format: Explanation">>]
  ELSE
    LET L == trimForTokens(leftCtx, CtxBudgetBuilt)
        R == trimForTokens(rightCtx, CtxBudgetBuilt)
        body == Block("Selection:", selection) \o Block("Left context:", L)
                  \o Block("Right context:", R)
    IN  IF kind = "Dictionary"
          THEN [ok |-> TRUE, val |-> <<"Task: Define">> \o body \o <<"Format: Dictionary">>]
        ELSE IF kind = "Correction"
          THEN [ok |-> TRUE, val |-> <<"Task: Check">> \o body \o <<"Format: Correction">>]
        ELSE [ok |-> FALSE, val |-> <<"Unsupported task kind">>]

----------------------------------------------------------------------------
(* Completion client *)

\* the URL callOpenRouterChat passes to fetch
Endpoint == <<"https://openrouter.ai/api/v1/chat/completions">>

StatusText(status) ==
  CASE status = 200 -> "200" [] status = 404 -> "404" [] status = 500 -> "500"

\* What fetch can settle with: a rejection, or a response with a status, a body
\* text and the JSON it parses to.  choices[0].message.content is missing
\* (hasContent FALSE), a string, or another JSON value, whose `trim` property is
\* absent (a number, a list) or there and no function (an object with that key).
ResponseShapes ==
  { [type |-> "reject", status |-> 0, text |-> <<"Failed to fetch">>, valid |-> FALSE,
     hasContent |-> FALSE, isString |-> FALSE, trim |-> "absent", content |-> <<>>] }
  \cup
  { [type |-> "http", status |-> st, text |-> <<"body">>, valid |-> FALSE,
     hasContent |-> FALSE, isString |-> FALSE, trim |-> "absent", content |-> <<>>]
      : st \in {404, 500} }
  \cup
  { [type |-> "http", status |-> 200, text |-> <<"body">>, valid |-> TRUE,
     hasContent |-> TRUE, isString |-> TRUE, trim |-> "function", content |-> c]
      : c \in { <<" ", "x">>, <<" ">>, <<>> } }
  \cup
  { [type |-> "http", status |-> 200, text |-> <<"body">>, valid |-> v,
     hasContent |-> FALSE, isString |-> FALSE, trim |-> "absent", content |-> <<>>]
      : v \in BOOLEAN }
  \cup
  { [type |-> "http", status |-> 200, text |-> <<"body">>, valid |-> TRUE,
     hasContent |-> TRUE, isString |-> FALSE, trim |-> t, content |-> <<>>]
      : t \in {"absent", "other"} }

\* the responses the task runs are checked with
Responses ==
  { r \in ResponseShapes : (r.hasContent => r.isString) /\ (r.isString => r.content # <<>>) }

\* [ok |-> TRUE, val |-> content] or [ok |-> FALSE, val |-> the error's message]
callOpenRouterChat(resp) ==
  IF resp.type = "reject" THEN [ok |-> FALSE, val |-> resp.text]
  ELSE IF ~(resp.status \in 200..299)
    THEN [ok |-> FALSE,
          val |-> <<"OpenRouter error ", StatusText(resp.status), ": ">> \o resp.text]
  ELSE IF ~resp.valid THEN [ok |-> FALSE, val |-> <<"Unexpected token">>]
  ELSE IF resp.hasContent /\ ~resp.isString /\ resp.trim = "other"
    THEN [ok |-> FALSE, val |-> <<"content.trim is not a function">>]
  ELSE LET content == IF resp.hasContent /\ resp.isString THEN Trim(resp.content)
                      ELSE <<>>
       IN  IF content = <<>> THEN [ok |-> FALSE, val |-> <<"Empty completion.">>]
           ELSE [ok |-> TRUE, val |-> content]

Hint == "Check API key, model name, or rate limits."

\* the markdown runTask's catch block renders
ErrorBlock(msg) == <<"**Error**", "<fence>">> \o msg \o <<"<fence>", Hint>>

----------------------------------------------------------------------------
(* Overlay geometry *)

NoRect == [none |-> TRUE, bottom |-> 0, left |-> 0]

\* A selection rectangle, the viewport and the size the panel measures after layout.
Geoms ==
  { [rect |-> [none |-> FALSE, bottom |-> 300, left |-> 100],
     vw |-> 1000, vh |-> 700, w |-> 400, h |-> 200],
    [rect |-> [none |-> FALSE, bottom |-> 690, left |-> 900],
     vw |-> 1000, vh |-> 700, w |-> 400, h |-> 200],
    [rect |-> NoRect, vw |-> 1000, vh |-> 700, w |-> 400, h |-> 200],
    [rect |-> [none |-> FALSE, bottom |-> 100, left |-> 10],
     vw |-> 400, vh |-> 700, w |-> 380, h |-> 200] }

Position(g) ==
  LET bottom == IF g.rect.none THEN DefaultAnchor ELSE g.rect.bottom
      rleft  == IF g.rect.none THEN DefaultAnchor ELSE g.rect.left
      t == IF g.vh - BottomGap < bottom + Margin THEN g.vh - BottomGap
           ELSE bottom + Margin
      m == IF MinLeft > rleft THEN MinLeft ELSE rleft
      l == IF g.vw - PanelReserve < m THEN g.vw - PanelReserve ELSE m
  IN  [top |-> t, left |-> l, g |-> g]

NoLayout == [top |-> 0, left |-> 0, g |-> [rect |-> NoRect, vw |-> 0, vh |-> 0, w |-> 0, h |-> 0]]

----------------------------------------------------------------------------
(* The editor: the document and the selection's offsets *)

Docs == { <<"a", " ", "b">> }

EditorStates ==
  { [doc |-> d, from |-> f, to |-> t] :
      d \in Docs, f \in 0..3, t \in 0..3 } 

ValidEditorStates == { e \in EditorStates : e.from <= e.to /\ e.to <= Len(e.doc) }

\* editor.getSelection()
getSelection(ed) == Slice(ed.doc, ed.from, ed.to)

\* a window that starts one character early
Extract_WideLeft(doc, fromPos, toPos) ==
  LET LEFT  == IF fromPos - Radius - 1 > 0 THEN fromPos - Radius - 1 ELSE 0
      RIGHT == IF Len(doc) < toPos + Radius THEN Len(doc) ELSE toPos + Radius
  IN  [left |-> Slice(doc, LEFT, fromPos), right |-> Slice(doc, toPos, RIGHT)]

\* runTask's context window: [left |-> leftCtx, right |-> rightCtx]
Extract(doc, fromPos, toPos) ==
  LET LEFT  == IF fromPos - Radius > 0 THEN fromPos - Radius ELSE 0
      RIGHT == IF Len(doc) < toPos + Radius THEN Len(doc) ELSE toPos + Radius
  IN  [left |-> Slice(doc, LEFT, fromPos), right |-> Slice(doc, toPos, RIGHT)]

----------------------------------------------------------------------------
(* The overlay.  The operations take and return the plugin's overlay state  *)
(* and the DOM as one record, so that a handler can chain them.            *)

NoAttr == <<"<no attribute>">>

H ==
  [popoverEl |-> popoverEl, contentEl |-> contentEl, attached |-> attached,
   raw |-> raw, children |-> children, renders |-> renders, layout |-> layout,
   placedFor |-> placedFor,
   escListeners |-> escListeners, outsideListeners |-> outsideListeners,
   timers |-> timers, writer |-> writer]

Apply(h) ==
  /\ popoverEl' = h.popoverEl
  /\ contentEl' = h.contentEl
  /\ attached' = h.attached
  /\ raw' = h.raw
  /\ children' = h.children
  /\ renders' = h.renders
  /\ layout' = h.layout
  /\ placedFor' = h.placedFor
  /\ escListeners' = h.escListeners
  /\ outsideListeners' = h.outsideListeners
  /\ timers' = h.timers
  /\ writer' = h.writer

\* destroyPopover that clears the references and leaves the panel in the document
destroyPopover_NoRemove(h) ==
  IF h.popoverEl # 0 THEN [h EXCEPT !.popoverEl = 0, !.contentEl = 0] ELSE h

\* destroyPopover that removes the panel and keeps the references to it
destroyPopover_KeepRef(h) ==
  IF h.popoverEl # 0 THEN [h EXCEPT !.attached = @ \ {h.popoverEl}] ELSE h

\* destroyPopover that forgets the panel and keeps the reference to its content
destroyPopover_KeepContent(h) ==
  IF h.popoverEl # 0 THEN [h EXCEPT !.attached = @ \ {h.popoverEl}, !.popoverEl = 0] ELSE h

\* Nothing the plugin or the user can reach refers to the removed element any more
\* (its listeners' closures use it for `contains` alone), so its content, its
\* style and the renders still running into it are forgotten with it.
destroyPopover(h) ==
  IF h.popoverEl # 0
    THEN [h EXCEPT !.attached = @ \ {h.popoverEl}, !.popoverEl = 0, !.contentEl = 0,
                   !.raw[h.popoverEl] = NoAttr, !.children[h.popoverEl] = <<>>,
                   !.layout[h.popoverEl] = NoLayout, !.writer[h.popoverEl] = 0,
                   !.placedFor[h.popoverEl] = NoAttr,
                   !.renders = SelectSeq(@, LAMBDA r : r.el # h.popoverEl)]
    ELSE h

\* an update that renders the markdown and does not store it
updatePopoverMarkdown_NoAttr(h, markdown, by) ==
  IF h.popoverEl = 0 \/ h.contentEl = 0 THEN h
  ELSE [h EXCEPT !.children[h.contentEl] = <<>>,
                 !.writer[h.contentEl] = by,
                 !.renders = Append(@, [el |-> h.contentEl, md |-> markdown])]

\* an update that, with no panel open, renders into the panel its caller's run opened
updatePopoverMarkdown_Detached(h, markdown, by) ==
  LET el == IF h.popoverEl = 0 \/ h.contentEl = 0 THEN by ELSE h.contentEl
  IN  [h EXCEPT !.children[el] = <<>>,
                !.raw[el] = markdown,
                !.writer[el] = by,
                !.renders = Append(@, [el |-> el, md |-> markdown])]

\* an update that, with no panel open, puts the panel of its caller's run back
updatePopoverMarkdown_Reattach(h, markdown, by) ==
  LET h1 == IF h.popoverEl = 0 \/ h.contentEl = 0
              THEN [h EXCEPT !.popoverEl = by, !.contentEl = by, !.attached = @ \cup {by}]
              ELSE h
  IN  [h1 EXCEPT !.children[h1.contentEl] = <<>>,
                 !.raw[h1.contentEl] = markdown,
                 !.writer[h1.contentEl] = by,
                 !.renders = Append(@, [el |-> h1.contentEl, md |-> markdown])]

\* up to its await: the render it starts completes later (RenderComplete)
updatePopoverMarkdown(h, markdown, by) ==
  IF h.popoverEl = 0 \/ h.contentEl = 0 THEN h
  ELSE [h EXCEPT !.children[h.contentEl] = <<>>,
                 !.raw[h.contentEl] = markdown,
                 !.writer[h.contentEl] = by,
                 !.renders = Append(@, [el |-> h.contentEl, md |-> markdown])]

\* an open that is put off: nothing is shown when it returns
showPopoverAtSelection_Deferred(h, id, initialMarkdown, g) == h

showPopoverAtSelection(h, id, initialMarkdown, g) ==
  LET h1 == destroyPopover(h)
      h2 == [h1 EXCEPT !.popoverEl = id, !.contentEl = id,
                       !.layout[id] = Position(g),
                       !.placedFor[id] = h1.raw[id],
                       !.attached = @ \cup {id}]
      h3 == updatePopoverMarkdown(h2, initialMarkdown, id)
      h4 == [h3 EXCEPT !.escListeners = @ \cup {id}]
  IN  IF variant = "built" THEN [h4 EXCEPT !.timers = @ \cup {id}] ELSE h4

----------------------------------------------------------------------------
(* runTask *)

\* A call's completion request with the locals of its suspended runTask
NoRequest ==
  [state |-> "none", kind |-> "", url |-> <<>>, model |-> <<>>, user |-> <<>>, key |-> <<>>,
   doc |-> <<>>, selection |-> <<>>, leftCtx |-> <<>>, rightCtx |-> <<>>]

\* runTask without its check of the API key
Precondition_SkipKey(selection, key) ==
  IF selection = <<>> THEN "noSelection" ELSE "ok"

\* runTask without its check of the selection
Precondition_SkipSelection(selection, key) ==
  IF key = <<>> THEN "noKey" ELSE "ok"

\* runTask's two early returns
Precondition(selection, key) ==
  IF selection = <<>> THEN "noSelection"
  ELSE IF key = <<>> THEN "noKey"
  ELSE "ok"

\* a try block that starts after the completion call
TryBlock_AfterCall == {"updatePopoverMarkdown"}

\* the statements of runTask inside its try block
TryBlock == {"getModelFor", "buildPrompt", "callOpenRouterChat", "updatePopoverMarkdown"}

\* a catch block that renders nothing
OnFailure_Swallow(h, step, msg, id) == [h |-> h, escaped |-> FALSE]

\* runTask when statement `step` throws an error with message msg:
\* the catch block renders it, or the rejection leaves runTask
OnFailure(h, step, msg, id) ==
  IF step \in TryBlock
    THEN [h |-> updatePopoverMarkdown(h, ErrorBlock(msg), id), escaped |-> FALSE]
    ELSE [h |-> h, escaped |-> TRUE]

Event(op, id, arg) == [op |-> op, id |-> id, arg |-> arg, before |-> popoverEl]

RunTask(kind, ed, g) ==
  LET id == ncalls + 1
      selection == Trim(getSelection(ed))
      pre == Precondition(selection, apiKey)
  IN
  /\ ncalls < MaxCalls
  /\ ncalls' = id
  /\ ev' = Event("runTask", id,
                 [kind |-> kind, ed |-> ed, key |-> apiKey, settings |-> settings])
  /\ UNCHANGED <<variant, apiKey, settings, clipboard, ticked>>
  /\ IF pre # "ok" THEN
       /\ notice' = IF pre = "noSelection" THEN NoSelectionNotice ELSE NoKeyNotice
       /\ UNCHANGED <<popoverEl, contentEl, attached, raw, children, renders, layout, placedFor,
                      escListeners, outsideListeners, timers, writer, requests,
                      unhandled, superseded>>
     ELSE
       LET ctx == Extract(ed.doc, ed.from, ed.to)
           h1  == showPopoverAtSelection(H, id, Working, g)
           p   == buildPrompt(kind, selection, ctx.left, ctx.right, ed.doc)
           f   == OnFailure(h1, "buildPrompt", p.val, id)
       IN
       /\ superseded' =
            IF popoverEl # 0 /\ requests[popoverEl].state = "pending"
              THEN superseded \cup {popoverEl} ELSE superseded
       /\ UNCHANGED notice
       /\ IF p.ok THEN
            /\ Apply(h1)
            /\ requests' = [requests EXCEPT ![id] =
                 [state |-> "pending", kind |-> kind, url |-> Endpoint,
                  model |-> getModelFor(settings, kind), user |-> p.val, key |-> apiKey,
                  doc |-> ed.doc, selection |-> selection,
                  leftCtx |-> ctx.left, rightCtx |-> ctx.right]]
            /\ UNCHANGED unhandled
          ELSE
            /\ Apply(f.h)
            /\ unhandled' = IF f.escaped THEN unhandled \cup {id} ELSE unhandled
            /\ UNCHANGED requests

\* a runTask that sends the request again when it has failed
Settle_Retry(id, resp) ==
  LET out == callOpenRouterChat(resp)
  IN
  /\ requests[id].state = "pending"
  /\ requests' = IF out.ok THEN [requests EXCEPT ![id] = [NoRequest EXCEPT !.state = "settled"]]
                  ELSE requests
  /\ ev' = Event("settle", id, resp)
  /\ Apply(IF out.ok THEN updatePopoverMarkdown(H, out.val, id) ELSE H)
  /\ UNCHANGED <<variant, apiKey, settings, ncalls, notice, clipboard, unhandled, superseded, ticked>>

\* the completion request of call id settles with resp, and runTask resumes
Settle(id, resp) ==
  LET out == callOpenRouterChat(resp)
      f   == OnFailure(H, "callOpenRouterChat", out.val, id)
  IN
  /\ requests[id].state = "pending"
  /\ requests' = [requests EXCEPT ![id] = [NoRequest EXCEPT !.state = "settled"]]
  /\ ev' = Event("settle", id, resp)
  /\ IF out.ok THEN
       /\ Apply(updatePopoverMarkdown(H, out.val, id))
       /\ UNCHANGED unhandled
     ELSE
       /\ Apply(f.h)
       /\ unhandled' = IF f.escaped THEN unhandled \cup {id} ELSE unhandled
  /\ UNCHANGED <<variant, apiKey, settings, ncalls, notice, clipboard, superseded, ticked>>

\* MarkdownRenderer.renderMarkdown finishes populating the element
RenderComplete(i) ==
  /\ i \in 1..Len(renders)
  /\ children' = [children EXCEPT ![renders[i].el] = Append(@, renders[i].md)]
  /\ renders' = SubSeq(renders, 1, i - 1) \o SubSeq(renders, i + 1, Len(renders))
  /\ ev' = Event("render", renders[i].el, renders[i].md)
  /\ UNCHANGED <<variant, apiKey, settings, ncalls, popoverEl, contentEl, attached, raw, layout, placedFor,
                 escListeners, outsideListeners, timers, requests, notice, clipboard, unhandled,
                 writer, superseded, ticked>>

----------------------------------------------------------------------------
(* Dismissal *)

Keys == {"Escape", "a"}

\* the esc listener of one panel
esc(h, key) == IF key = "Escape" THEN destroyPopover(h) ELSE h

\* a keydown event on window: every registered esc listener runs; each was added
\* with {once: true} and is removed as it is invoked
KeyDown(key) ==
  LET h1 == IF escListeners # {} THEN esc(H, key) ELSE H
  IN
  /\ Apply([h1 EXCEPT !.escListeners = {}])
  /\ ev' = Event("keydown", 0, key)
  /\ UNCHANGED <<variant, apiKey, settings, ncalls, requests, notice, clipboard, unhandled, superseded, ticked>>

\* outsideClick with its test inverted: it acts on targets inside its container
OutsideHits_Inverted(h, target) == { l \in h.outsideListeners : l = target }

\* the outsideClick listeners that act on a mousedown whose target is inside
\* panel `target` (0: outside every panel): those whose container does not contain it
OutsideHits(h, target) == { l \in h.outsideListeners : l # target }

\* a mousedown event on document
MouseDown(target) ==
  LET hits == OutsideHits(H, target)
      h1 == IF hits # {} THEN destroyPopover(H) ELSE H
  IN
  /\ target \in {0} \cup attached
  /\ Apply([h1 EXCEPT !.outsideListeners = @ \ hits])
  /\ ev' = Event("mousedown", 0, target)
  /\ UNCHANGED <<variant, apiKey, settings, ncalls, requests, notice, clipboard, unhandled, superseded, ticked>>

\* the setTimeout(..., 0) callback of panel p
TimerFire(p) ==
  /\ p \in timers
  /\ timers' = timers \ {p}
  /\ outsideListeners' = outsideListeners \cup {p}
  /\ ticked' = ticked \cup {p}
  /\ ev' = Event("timer", p, 0)
  /\ UNCHANGED <<variant, apiKey, settings, ncalls, popoverEl, contentEl, attached, raw, children,
                 renders, layout, placedFor, escListeners, requests, notice, clipboard, unhandled, writer,
                 superseded>>

\* a click on the Close button of the attached panel
ClickClose ==
  /\ attached # {}
  /\ Apply(destroyPopover(H))
  /\ ev' = Event("close", 0, 0)
  /\ UNCHANGED <<variant, apiKey, settings, ncalls, requests, notice, clipboard, unhandled, superseded, ticked>>

----------------------------------------------------------------------------
(* Copy *)

\* the text of a rendered node: the markdown without its markup
RenderedText(md) ==
  LET plain == SelectSeq(md, LAMBDA t : t # "<fence>")
  IN  [i \in 1..Len(plain) |-> IF plain[i] = "**Error**" THEN "Error" ELSE plain[i]]

\* content.textContent: the text of the nodes, in order
RECURSIVE TextContent(_)
TextContent(nodes) ==
  IF nodes = <<>> THEN <<>> ELSE RenderedText(Head(nodes)) \o TextContent(Tail(nodes))

\* a Copy handler that takes the text shown
copyBtn_Text(attr, textContent) == textContent

\* what the Copy handler writes: getAttribute("data-raw-markdown") || textContent || ""
copyBtn(attr, textContent) ==
  IF attr # NoAttr /\ attr # <<>> THEN attr
  ELSE IF textContent # <<>> THEN textContent
  ELSE <<>>

\* a click on the Copy button of the attached panel p
ClickCopy(p) ==
  /\ p \in attached
  /\ clipboard' = copyBtn(raw[p], TextContent(children[p]))
  /\ notice' = "Copied"
  /\ ev' = Event("copy", p, 0)
  /\ UNCHANGED <<variant, apiKey, settings, ncalls, popoverEl, contentEl, attached, raw,
                 children, renders, layout, placedFor, escListeners, outsideListeners,
                 timers, requests, unhandled, writer, superseded, ticked>>

----------------------------------------------------------------------------
(* Settings *)

KeyInputs == { <<>>, <<" ", "k">> }

\* the API key field's onChange
SetApiKey(value) ==
  /\ apiKey' = Trim(value)
  /\ apiKey' # apiKey
  /\ ev' = Event("setApiKey", 0, value)
  /\ UNCHANGED <<variant, settings, ncalls, popoverEl, contentEl, attached, raw, children,
                 renders, layout, placedFor, escListeners, outsideListeners, timers, requests, notice, clipboard,
                 unhandled, writer, superseded, ticked>>

ModelInputs == { <<>>, <<" ", "m">> }

\* settings with the model field of `kind` set to value
WithModel(s, kind, value) ==
  IF kind = "Dictionary" THEN [s EXCEPT !.modelDictionary = value]
  ELSE IF kind = "Correction" THEN [s EXCEPT !.modelCorrection = value]
  ELSE [s EXCEPT !.modelExplanation = value]

\* a model field's onChange (the tab has one field per kind of the variant)
SetModel(kind, value) ==
  /\ kind \in Kinds
  /\ settings' = WithModel(settings, kind, Trim(value))
  /\ settings' # settings
  /\ ev' = Event("setModel", 0, [kind |-> kind, value |-> value])
  /\ UNCHANGED <<variant, apiKey, ncalls, popoverEl, contentEl, attached, raw, children,
                 renders, layout, placedFor, escListeners, outsideListeners, timers, requests, notice, clipboard,
                 unhandled, writer, superseded, ticked>>

----------------------------------------------------------------------------
(* The specification *)

Init ==
  /\ variant \in {"ts", "built"}
  /\ apiKey \in {<<>>, <<"k">>}
  /\ settings = loadSettings(NoData)
  /\ ncalls = 0
  /\ popoverEl = 0
  /\ contentEl = 0
  /\ attached = {}
  /\ raw = [p \in PanelIds |-> NoAttr]
  /\ children = [p \in PanelIds |-> <<>>]
  /\ renders = <<>>
  /\ layout = [p \in PanelIds |-> NoLayout]
  /\ placedFor = [p \in PanelIds |-> NoAttr]
  /\ escListeners = {}
  /\ outsideListeners = {}
  /\ timers = {}
  /\ requests = [p \in PanelIds |-> NoRequest]
  /\ notice = ""
  /\ clipboard = <<>>
  /\ unhandled = {}
  /\ writer = [p \in PanelIds |-> 0]
  /\ superseded = {}
  /\ ticked = {}
  /\ ev = [op |-> "init", id |-> 0, arg |-> 0, before |-> 0]

\* runTask is invoked (a command or a menu item) with a kind, an editor state and
\* a geometry drawn from the given sets
RunStep(kinds, eds, geoms) ==
  \E kind \in kinds, ed \in eds, g \in geoms : RunTask(kind, ed, g)

\* a request settles with a response of the given set, or a render completes
AsyncStep(resps) ==
  \/ \E id \in PanelIds, resp \in resps : Settle(id, resp)
  \/ \E i \in 1..Len(renders) : RenderComplete(i)

\* the user's gestures on the window, the document and the panel
UserStep ==
  \/ \E key \in Keys : KeyDown(key)
  \/ \E target \in {0} \cup PanelIds : MouseDown(target)
  \/ \E p \in PanelIds : TimerFire(p)
  \/ ClickClose

\* Several task runs interleaved with the user's dismissals, on a few inputs and
\* with the settings as loaded
LifecycleKinds == {"Correction"}
LifecycleEditorStates == { e \in ValidEditorStates : e.from = 1 /\ e.to \in {2, 3} }
LifecycleGeoms == { g \in Geoms : g.rect.none }
LifecycleResponses ==
  { r \in Responses : r.type = "reject" \/ (r.hasContent /\ Trim(r.content) # <<>>) }

Next ==
  \/ RunStep(LifecycleKinds, LifecycleEditorStates, LifecycleGeoms)
  \/ AsyncStep(LifecycleResponses)
  \/ UserStep

Spec == Init /\ [][Next]_vars

\* One task run from the initial state, on every input, with the settings tab
NextWide ==
  \/ (ncalls = 0 /\ RunStep(Kinds, ValidEditorStates, Geoms))
  \/ AsyncStep(Responses)
  \/ UserStep
  \/ \E p \in PanelIds : ClickCopy(p)
  \/ \E value \in KeyInputs : SetApiKey(value)

SpecWide == Init /\ [][NextWide]_vars

\* What the vault can have stored for the plugin: model fields saved earlier (also
\* saved empty), and an endpoint key, which the settings tab never writes
StoredData ==
  [modelDictionary : {Undefined, <<>>, <<"m">>}, modelCorrection : {Undefined, <<>>},
   modelExplanation : {Undefined, <<>>},
   endpoint : {Undefined, <<"https://example.test/v1/chat/completions">>}]

\* the state after construction and loadSettings, for every stored data
InitLoaded ==
  /\ variant \in {"ts", "built"}
  /\ apiKey \in {<<>>, <<"k">>}
  /\ settings \in { loadSettings(data) : data \in StoredData }
  /\ ncalls = 0
  /\ popoverEl = 0
  /\ contentEl = 0
  /\ attached = {}
  /\ raw = [p \in PanelIds |-> NoAttr]
  /\ children = [p \in PanelIds |-> <<>>]
  /\ renders = <<>>
  /\ layout = [p \in PanelIds |-> NoLayout]
  /\ placedFor = [p \in PanelIds |-> NoAttr]
  /\ escListeners = {}
  /\ outsideListeners = {}
  /\ timers = {}
  /\ requests = [p \in PanelIds |-> NoRequest]
  /\ notice = ""
  /\ clipboard = <<>>
  /\ unhandled = {}
  /\ writer = [p \in PanelIds |-> 0]
  /\ superseded = {}
  /\ ticked = {}
  /\ ev = [op |-> "init", id |-> 0, arg |-> 0, before |-> 0]

\* One task run of each kind under every configuration, with the model fields of
\* the settings tab
NextSettings ==
  \/ (ncalls = 0 /\ RunStep(Kinds, LifecycleEditorStates, LifecycleGeoms))
  \/ AsyncStep(LifecycleResponses)
  \/ \E kind \in {"Dictionary", "Correction", "Explanation"}, value \in ModelInputs :
       SetModel(kind, value)

SpecSettings == InitLoaded /\ [][NextSettings]_vars

----------------------------------------------------------------------------
(* The functions on their own: each step applies one of them to an input and   *)
(* records the input and the result in ev.  One call is made, in the state     *)
(* after construction.                                                        *)

\* a function was called with arg; the plugin's state is as it was
Call(op, arg) ==
  /\ ev' = Event(op, 0, arg)
  /\ UNCHANGED <<variant, apiKey, settings, ncalls, popoverEl, contentEl, attached, raw,
                 children, renders, layout, placedFor, escListeners, outsideListeners, timers,
                 requests, notice, clipboard, unhandled, writer, superseded, ticked>>

\* a document longer than every radius and budget
LongDoc == [i \in 1..LongLen |-> IF i % 3 = 0 THEN "a" ELSE IF i % 3 = 1 THEN "b" ELSE " "]

\* offsets at the document's ends and around the points where the window is clipped
LongOffsets ==
  {0, 1, Radius - 1, Radius, Radius + 1, 2 * Radius, LongLen - Radius - 1,
   LongLen - Radius, LongLen - Radius + 1, LongLen - 1, LongLen}

FunctionEditorStates ==
  ValidEditorStates \cup
  { [doc |-> LongDoc, from |-> f, to |-> t] : f \in LongOffsets, t \in LongOffsets }

ExtractStep ==
  /\ ev.op = "init"
  /\ \E ed \in FunctionEditorStates :
    /\ ed.from <= ed.to
    /\ Call("extract", [ed |-> ed, out |-> Extract(ed.doc, ed.from, ed.to)])

\* strings of up to four characters, and strings that hold the elision marker
TrimInputs ==
  UNION { [1..n -> {"a", "b"}] : n \in 0..4 }
    \cup { Elision, <<"a">> \o Elision \o <<"b">>, <<"a", "b">> \o Elision \o <<"a", "b">> }

TrimBudgets == 0..5

TrimStep ==
  /\ ev.op = "init"
  /\ \E s \in TrimInputs, maxChars \in TrimBudgets :
    Call("trimForTokens", [s |-> s, maxChars |-> maxChars, out |-> trimForTokens(s, maxChars)])

\* the kinds of either variant, and a value that is no TaskKind
PromptKinds == {"Dictionary", "Correction", "Explanation", "Other"}

\* empty, short, and longer than every context budget
PromptContexts == { <<>>, <<"a", " ">>, Slice(LongDoc, 0, CtxBudgetTs + 100) }

PromptStep ==
  /\ ev.op = "init"
  /\ \E kind \in PromptKinds, selection \in { <<"b">>, <<"a", " ", "b">> },
        leftCtx \in PromptContexts, rightCtx \in PromptContexts,
        fullDoc \in Docs \cup {LongDoc} :
       Call("buildPrompt",
            [kind |-> kind, selection |-> selection, leftCtx |-> leftCtx,
             rightCtx |-> rightCtx, fullDoc |-> fullDoc,
             out |-> buildPrompt(kind, selection, leftCtx, rightCtx, fullDoc)])

ClientStep ==
  /\ ev.op = "init"
  /\ \E resp \in ResponseShapes :
       Call("callOpenRouterChat", [resp |-> resp, out |-> callOpenRouterChat(resp)])

NextFunctions ==
  \/ ExtractStep
  \/ TrimStep
  \/ PromptStep
  \/ ClientStep

SpecFunctions == Init /\ [][NextFunctions]_vars

----------------------------------------------------------------------------
(* Properties *)

\* whether the runTask call recorded in ev passed its preconditions and opened a panel
Opened ==
  /\ ev.op = "runTask"
  /\ Trim(getSelection(ev.arg.ed)) # <<>>
  /\ ev.arg.key # <<>>

\* C1: once a later runTask has destroyed the overlay of a run whose request was
\* still pending, nothing that run's request settles with (result or error block)
\* is written into the overlay that is open.
C1_StaleDiscarded == \A p \in attached : writer[p] \notin superseded

\* C2: at most one panel is attached to the document in every state, and a runTask
\* that opens a panel, also while another is open, leaves exactly the new one attached.
C2_OnePanel ==
  /\ Cardinality(attached) <= 1
  /\ Opened => attached = {ev.id}

C2_Witness == Opened /\ ev.before # 0 /\ attached = {ev.id} /\ ev.before # ev.id

\* Fairness: every outstanding completion request settles, and every render that
\* was started completes.
Fairness ==
  /\ \A id \in PanelIds : WF_vars(\E resp \in LifecycleResponses : Settle(id, resp))
  /\ WF_vars(\E i \in 1..Len(renders) : RenderComplete(i))

FairSpec == Spec /\ Fairness

\* the panel's stored markdown is a result or an error block, and its rendering is
\* in the content region
Terminal(p) ==
  /\ raw[p] # Working
  /\ raw[p] # NoAttr
  /\ \E i \in 1..Len(children[p]) : children[p][i] = raw[p]

C4_PreconditionShortCircuit ==
  (ev.op = "runTask" /\ (Trim(getSelection(ev.arg.ed)) = <<>> \/ ev.arg.key = <<>>)) =>
    /\ notice = IF Trim(getSelection(ev.arg.ed)) = <<>> THEN NoSelectionNotice
                ELSE NoKeyNotice
    /\ requests[ev.id].state = "none"
    /\ ev.id \notin attached
    /\ raw[ev.id] = NoAttr
    /\ popoverEl = ev.before
    /\ \A r \in 1..Len(renders) : renders[r].el # ev.id

C4_Witness ==
  /\ ev.op = "runTask"
  /\ getSelection(ev.arg.ed) # <<>>
  /\ Trim(getSelection(ev.arg.ed)) = <<>>
  /\ ev.arg.key # <<>>
  /\ notice = NoSelectionNotice
  /\ requests[ev.id].state = "none"

\* what the completion request recorded in ev failed with: a transport failure, a
\* non-2xx status, a body that is no JSON, or no usable content
SettleFailed ==
  /\ ev.op = "settle"
  /\ \/ ev.arg.type = "reject"
     \/ ev.arg.status \notin 200..299
     \/ ~ev.arg.valid
     \/ ~ev.arg.hasContent
     \/ ~ev.arg.isString
     \/ Trim(ev.arg.content) = <<>>

\* C5: no failure of a run leaves runTask as a rejection, and when a completion
\* request fails the open overlay's markdown becomes the error block: the heading,
\* the failure's message in a code fence, and the remediation hint.
C5_FailuresRendered ==
  /\ unhandled = {}
  /\ (SettleFailed /\ popoverEl # 0) =>
       \E msg \in { <<"Failed to fetch">>, <<"OpenRouter error ", "404", ": ", "body">>,
                    <<"OpenRouter error ", "500", ": ", "body">>,
                    <<"Unexpected token">>, <<"Empty completion.">> } :
         /\ raw[popoverEl] = <<"**Error**", "<fence>">> \o msg \o <<"<fence>", Hint>>
         /\ (ev.arg.type = "reject") = (msg = <<"Failed to fetch">>)
         /\ (ev.arg.type = "http" /\ ev.arg.status \notin 200..299)
              = (msg[1] = "OpenRouter error ")

C5_Witness ==
  /\ SettleFailed
  /\ ev.arg.status = 404
  /\ popoverEl = ev.id
  /\ raw[popoverEl] = ErrorBlock(<<"OpenRouter error ", "404", ": ", "body">>)

\* C6: an Escape key press while a panel is open closes the panel.
C6_EscapeCloses ==
  (ev.op = "keydown" /\ ev.arg = "Escape" /\ ev.before # 0) => popoverEl = 0

C8_ListenersReleased == (escListeners \cup outsideListeners) \subseteq attached

\* C9: when the measured panel and its margins fit the viewport, the position
\* given to an attached panel keeps the panel within [margin, viewport - margin]
\* on both axes.
C9_Clamped ==
  \A p \in attached :
    LET L == layout[p]
    IN  (L.g.w + 2 * Margin <= L.g.vw /\ L.g.h + 2 * Margin <= L.g.vh) =>
          /\ Margin <= L.left
          /\ L.left + L.g.w <= L.g.vw - Margin
          /\ Margin <= L.top
          /\ L.top + L.g.h <= L.g.vh - Margin

\* C10: the left context, the selection passed to the prompt and the right
\* context of a run concatenate to a contiguous substring of the document.
C10_Reconstruction ==
  \A id \in PanelIds :
    requests[id].state = "pending" =>
      IsSubstring(requests[id].leftCtx \o requests[id].selection \o requests[id].rightCtx,
                  requests[id].doc)

\* C11: the left context is the document from max(0, start - radius) to start and
\* the right context is the document from end to min(length, end + radius), so
\* neither is longer than the radius nor reaches outside the document.
C11_ExtractBounds ==
  ev.op = "extract" =>
    LET doc == ev.arg.ed.doc
        start == ev.arg.ed.from
        end == ev.arg.ed.to
        lo == IF start - Radius > 0 THEN start - Radius ELSE 0
        hi == IF end + Radius < Len(doc) THEN end + Radius ELSE Len(doc)
    IN  /\ Len(ev.arg.out.left) = start - lo
        /\ \A i \in 1..(start - lo) : ev.arg.out.left[i] = doc[lo + i]
        /\ Len(ev.arg.out.right) = hi - end
        /\ \A i \in 1..(hi - end) : ev.arg.out.right[i] = doc[end + i]
        /\ Len(ev.arg.out.left) <= Radius
        /\ Len(ev.arg.out.right) <= Radius

C11_Witness ==
  /\ ev.op = "extract"
  /\ ev.arg.ed.from > Radius
  /\ ev.arg.ed.to + Radius < Len(ev.arg.ed.doc)
  /\ Len(ev.arg.out.left) = Radius
  /\ Len(ev.arg.out.right) = Radius

\* C12 as stated: trimForTokens(s, n) returns s unchanged exactly when Len(s) <= n;
\* otherwise the result differs from s, is at most n plus the marker long, and is
\* a prefix of s, the marker and a suffix of s.
C12_NoOpIff ==
  ev.op = "trimForTokens" =>
    LET s == ev.arg.s
        n == ev.arg.maxChars
        out == ev.arg.out
    IN  /\ (out = s) <=> (Len(s) <= n)
        /\ Len(s) > n =>
             /\ Len(out) <= n + Len(Elision)
             /\ \E i, j \in 0..Len(s) :
                  out = SubSeq(s, 1, i) \o Elision \o SubSeq(s, Len(s) - j + 1, Len(s))

\* C12, amended: trimForTokens(s, n) returns s unchanged when Len(s) <= n; when
\* Len(s) > n the result is a prefix of s, the marker and a suffix of s, at most n
\* plus the marker long, and it differs from s unless s itself holds the marker.
C12_TrimShape ==
  ev.op = "trimForTokens" =>
    LET s == ev.arg.s
        n == ev.arg.maxChars
        out == ev.arg.out
    IN  /\ Len(s) <= n => out = s
        /\ Len(s) > n =>
             /\ Len(out) <= n + Len(Elision)
             /\ \E i, j \in 0..Len(s) :
                  out = SubSeq(s, 1, i) \o Elision \o SubSeq(s, Len(s) - j + 1, Len(s))
             /\ ~IsSubstring(Elision, s) => out # s

C12_Witness ==
  /\ ev.op = "trimForTokens"
  /\ Len(ev.arg.s) > ev.arg.maxChars
  /\ ev.arg.maxChars > 0
  /\ ev.arg.out # ev.arg.s
  /\ Len(ev.arg.out) = ev.arg.maxChars + Len(Elision)

\* C13: when Len(s) > maxChars, trimForTokens keeps the first floor(maxChars/2)
\* and the last maxChars - floor(maxChars/2) characters of s, joined by the marker.
C13_Halves ==
  (ev.op = "trimForTokens" /\ Len(ev.arg.s) > ev.arg.maxChars) =>
    LET s == ev.arg.s
        first == ev.arg.maxChars \div 2
        last == ev.arg.maxChars - first
    IN  ev.arg.out = SubSeq(s, 1, first) \o Elision \o SubSeq(s, Len(s) - last + 1, Len(s))

\* how many times the run b (not empty) occurs in p
Count(b, p) ==
  Cardinality({ i \in 1..Len(p) :
                  /\ p[i] = b[1]
                  /\ i + Len(b) - 1 <= Len(p)
                  /\ SubSeq(p, i, i + Len(b) - 1) = b })

C15_FailFast ==
  (ev.op = "buildPrompt" /\ ev.arg.kind \notin Kinds) => ~ev.arg.out.ok

\* C16: callOpenRouterChat returns the trimmed content exactly when the response
\* is 2xx and its content is a string that is not empty after trimming; a transport
\* failure propagates the transport error; a non-2xx status gives an error whose
\* message holds the status code and the response body; every other 2xx response
\* (empty, whitespace-only, missing or differently shaped content) gives the
\* "Empty completion." error; and it never returns an empty string.
C16_Classification ==
  ev.op = "callOpenRouterChat" =>
    LET r == ev.arg.resp
        out == ev.arg.out
        is2xx == r.type = "http" /\ r.status \in 200..299
        good == is2xx /\ r.valid /\ r.hasContent /\ r.isString /\ Trim(r.content) # <<>>
    IN  /\ out.ok <=> good
        /\ good => out.val = Trim(r.content)
        /\ out.ok => out.val # <<>>
        /\ r.type = "reject" => out.val = r.text
        /\ (r.type = "http" /\ ~is2xx) =>
             (IsSubstring(<<StatusText(r.status)>>, out.val) /\ IsSubstring(r.text, out.val))
        /\ (is2xx /\ ~good) => out.val = <<"Empty completion.">>

\* C17: a runTask call that passes its preconditions issues one completion request,
\* a call issues none otherwise, a request that has settled (also with a failure)
\* is not issued again, and a request is only ever issued by a runTask call.
C17_NoRetry ==
  /\ [](\A id \in PanelIds : id > ncalls => requests[id].state = "none")
  /\ [](Opened => requests[ev.id].state = "pending")
  /\ []((ev.op = "runTask" /\ ~Opened) => requests[ev.id].state = "none")
  /\ [](ev.op = "settle" => requests[ev.id].state = "settled")
  /\ [][\A id \in PanelIds :
          requests'[id].state # requests[id].state =>
            \/ /\ requests[id].state = "none"
               /\ requests'[id].state = "pending"
               /\ ev'.op = "runTask"
               /\ ev'.id = id
               /\ ncalls' = ncalls + 1
            \/ /\ requests[id].state = "pending"
               /\ requests'[id].state = "settled"
               /\ ev'.op = "settle"
               /\ ev'.id = id]_vars

C17_Witness ==
  /\ ev.op = "settle"
  /\ ev.arg.type = "reject"
  /\ popoverEl = ev.id
  /\ requests[ev.id].state = "settled"
  /\ raw[ev.id] = ErrorBlock(ev.arg.text)
  /\ \A id \in PanelIds : requests[id].state # "pending"

\* C18: when a run's request succeeds while the overlay that run opened is still
\* the open one, the overlay's data-raw-markdown becomes the text the completion
\* client returned (the response's content, trimmed), and nothing else.
C18_ExactText ==
  ( /\ ev.op = "settle"
    /\ ev.arg.type = "http"
    /\ ev.arg.status \in 200..299
    /\ ev.arg.valid /\ ev.arg.hasContent /\ ev.arg.isString
    /\ Trim(ev.arg.content) # <<>>
    /\ ev.before = ev.id ) =>
      /\ popoverEl = ev.id
      /\ raw[ev.id] = Trim(ev.arg.content)

C18_Witness ==
  /\ ev.op = "settle"
  /\ ev.before = ev.id
  /\ ev.id = 2
  /\ ev.arg.content = <<" ", "x">>
  /\ raw[ev.id] = <<"x">>

\* the model setting of a kind in settings s, and its built-in default
Configured(s, kind) ==
  IF kind = "Dictionary" THEN s.modelDictionary
  ELSE IF kind = "Correction" THEN s.modelCorrection
  ELSE s.modelExplanation

\* C19: the completion request goes to the endpoint the configuration holds, and to
\* the fixed chat-completions URL only when the configuration holds none.
C19_EndpointConfigurable ==
  Opened =>
    requests[ev.id].url =
      IF ev.arg.settings.endpoint # Undefined THEN ev.arg.settings.endpoint ELSE Endpoint

\* C20: the model of the request a run sends is the one configured for the run's
\* kind, or that kind's built-in default when the configured value is empty or
\* unset; it is never empty or undefined.
C20_ModelResolution ==
  Opened =>
    LET configured == Configured(ev.arg.settings, ev.arg.kind)
        model == requests[ev.id].model
    IN  /\ model # <<>>
        /\ model # Undefined
        /\ configured \notin {<<>>, Undefined} => model = configured
        /\ configured \in {<<>>, Undefined} =>
             model = Configured(DEFAULT_SETTINGS, ev.arg.kind)

C20_Witness ==
  /\ Opened
  /\ ev.arg.kind = "Correction"
  /\ ev.arg.settings.modelCorrection = <<>>
  /\ ev.arg.settings.modelDictionary = <<"m">>
  /\ requests[ev.id].model = DEFAULT_SETTINGS.modelCorrection

\* C21: when the render of an update on an open panel completes, the panel's
\* position has been computed again for the markdown that update stored.
C21_Repositioned ==
  (ev.op = "render" /\ ev.id \in attached) => placedFor[ev.id] = ev.arg

\* C22: an updatePopoverMarkdown call made while no panel is open (a request that
\* settles after the overlay was closed) changes nothing: popoverEl and contentEl
\* stay null, no panel is attached, no render starts, no content is stored.
C22_NoOpWhenClosed ==
  [][(popoverEl = 0 /\ ev'.op = "settle") =>
       /\ popoverEl' = 0
       /\ contentEl' = contentEl
       /\ attached' = attached
       /\ raw' = raw
       /\ children' = children
       /\ renders' = renders
       /\ layout' = layout]_vars

C22_Witness ==
  /\ ev.op = "settle"
  /\ ev.before = 0
  /\ ev.arg.type = "http"
  /\ popoverEl = 0
  /\ contentEl = 0
  /\ attached = {}
  /\ renders = <<>>
  /\ raw[ev.id] = NoAttr

\* C28: when a request settles (resolves or rejects) after the overlay was dismissed
\* and no panel is open, no overlay is created or attached again: the overlay
\* stays closed and the document holds no panel.
C28_StaysClosed ==
  (ev.op = "settle" /\ ev.before = 0) => (popoverEl = 0 /\ contentEl = 0 /\ attached = {})

C28_Witness ==
  /\ ev.op = "settle"
  /\ ev.arg.type = "reject"
  /\ ev.before = 0
  /\ ev.id = ncalls
  /\ attached = {}
  /\ popoverEl = 0

\* C23: the step of a run that issues its completion request has opened the run's
\* overlay with the "Working" placeholder stored, and a request is outstanding only
\* for a run that has been invoked.
C23_OpenBeforeRequest ==
  /\ [](\A id \in PanelIds : requests[id].state = "pending" => id <= ncalls)
  /\ [][\A id \in PanelIds :
          (requests[id].state = "none" /\ requests'[id].state = "pending") =>
            /\ popoverEl' = id
            /\ contentEl' = id
            /\ id \in attached'
            /\ raw'[id] = Working
            /\ \E r \in 1..Len(renders') : renders'[r] = [el |-> id, md |-> Working]]_vars

C23_Witness ==
  /\ Opened
  /\ requests[ev.id].state = "pending"
  /\ raw[ev.id] = Working
  /\ children[ev.id] = <<>>
  /\ popoverEl = ev.id

\* C24: a click on Copy writes to the clipboard the markdown stored in the panel's
\* data-raw-markdown (what the last update on the panel stored), not the text of
\* the rendered nodes.
C24_CopyRaw ==
  ev.op = "copy" =>
    /\ raw[ev.id] # NoAttr
    /\ clipboard = raw[ev.id]
    /\ notice = "Copied"

C24_Witness ==
  /\ ev.op = "copy"
  /\ children[ev.id] # <<>>
  /\ raw[ev.id] = ErrorBlock(<<"Empty completion.">>)
  /\ clipboard = raw[ev.id]
  /\ clipboard # TextContent(children[ev.id])

\* C25: in every state, destroyPopover leaves no panel attached and popoverEl and
\* contentEl null, a second call right after it changes nothing, and so does a
\* call made while no panel is open.
C25_Idempotent ==
  LET h1 == destroyPopover(H)
  IN  /\ h1.popoverEl = 0
      /\ h1.contentEl = 0
      /\ h1.attached = {}
      /\ destroyPopover(h1) = h1
      /\ popoverEl = 0 => h1 = H

C25_Witness ==
  /\ ev.op = "close"
  /\ ev.before # 0
  /\ popoverEl = 0
  /\ attached = {}
  /\ destroyPopover(H) = H

\* C26: a mousedown whose target is inside the open panel leaves that panel open.
C26_InsideClickKeeps ==
  (ev.op = "mousedown" /\ ev.arg # 0 /\ ev.arg = ev.before) =>
    (popoverEl = ev.before /\ ev.before \in attached)

\* C27: once no render is running, the content region of the attached panel holds
\* the rendering of its stored markdown and no other node.
C27_Converged ==
  \A p \in attached : renders = <<>> => children[p] = <<raw[p]>>

\* C29: a runTask call that fails a precondition leaves the overlay as it was: the
\* references, the attached panel, its stored markdown, its content and its
\* position, the renders running, the listeners, and every request.
C29_PreconditionFrame ==
  [][(ev'.op = "runTask"
        /\ (Trim(getSelection(ev'.arg.ed)) = <<>> \/ ev'.arg.key = <<>>)) =>
       /\ popoverEl' = popoverEl
       /\ contentEl' = contentEl
       /\ attached' = attached
       /\ raw' = raw
       /\ children' = children
       /\ renders' = renders
       /\ layout' = layout
       /\ escListeners' = escListeners
       /\ outsideListeners' = outsideListeners
       /\ timers' = timers
       /\ requests' = requests]_vars

C29_Witness ==
  /\ ev.op = "runTask"
  /\ Trim(getSelection(ev.arg.ed)) = <<>>
  /\ ev.before # 0
  /\ attached = {ev.before}
  /\ popoverEl = ev.before
  /\ requests[ev.before].state = "pending"
  /\ raw[ev.before] = Working

\* C30: popoverEl and contentEl are both null or both refer to the same panel, and
\* the panels attached to the document are exactly the one popoverEl refers to.
C30_ReferenceConsistency ==
  /\ (popoverEl = 0) <=> (contentEl = 0)
  /\ contentEl = popoverEl
  /\ attached = IF popoverEl = 0 THEN {} ELSE {popoverEl}

C30_Witness ==
  /\ ev.op = "mousedown"
  /\ ev.before # 0
  /\ popoverEl = 0
  /\ contentEl = 0
  /\ attached = {}
  /\ ncalls = 2

====
